---- MODULE Spec2Model ----
(***************************************************************************)
(* Model of run.py: the orchestration of one Flink job through cluster     *)
(* start, submission, the RUNNING poll loop, a native savepoint, the       *)
(* rename / swap tool / rename-back of the largest state file, and the     *)
(* resume from the modified savepoint.                                     *)
(*                                                                         *)
(* One action per statement group of main(); pc is the position in main(). *)
(* Everything the environment decides (which paths exist, what a child     *)
(* process returns, what the HTTP endpoint answers, whether a rename       *)
(* succeeds, when the caller interrupts) is drawn with \E in the action    *)
(* that observes it.                                                       *)
(***************************************************************************)
EXTENDS Integers, Sequences, FiniteSets, TLC

VARIABLES
    pc,             \* position in main(), then "returned"/"raised", then "exited"
    steps,          \* history: the side-effecting steps invoked so far, in order
    retval,         \* <<>> until main returns, then <<value>>
    exc,            \* "none" or the exception that left main()
    exitStatus,     \* <<>> until the process exits, then <<status>>
    failedAt,       \* "none" or the phase whose failure was detected first
    missing,        \* "none" or the precondition path found missing
    rc,             \* per command: <<>> or <<returncode>> of the child process
    job_output,     \* captured output of the submission (sequence of characters)
    job_id,         \* <<>> (None) or <<the 32 characters>>
    job_status,     \* value of job_status (line 175/177)
    wait_time,      \* value of wait_time (line 174/186)
    checkedAt,      \* history: the value of wait_time at each check_job_status call
    lastReturned,   \* history: <<>> or <<the status the last check returned>>
    reported,       \* <<>> or <<the status printed by the timeout error, line 190>>
    elapsed,        \* <<>> when time is not observed, else <<the time units passed
                    \* since the first status check began>>
    savepoint,      \* what the savepoint output and the disk say about the path
    listing,        \* the directory listing iterated at line 232 (<<>> outside the loop)
    target_file,    \* <<>> (None) or <<index into listing>>
    origExists,     \* the state file exists under its original name
    suffixExists,   \* the state file exists under the .sst-suffixed name
    revert,         \* "none", "ok", "failed", "skipped": the revert rename of line 257
    envOk           \* history: every input the environment handed main so far was
                    \* a good one (path exists, child exits 0, output parseable,
                    \* the poller gets a status, rename succeeds, no interrupt)

vars == <<pc, steps, retval, exc, exitStatus, failedAt, missing, rc, job_output,
          job_id, job_status, wait_time, checkedAt, lastReturned, reported, elapsed,
          savepoint, listing,
          target_file, origExists, suffixExists, revert, envOk>>

(***************************************************************************)
(* Bounds of the model.                                                    *)
(***************************************************************************)
MaxExit == 2        \* child processes exit with a code in 0..MaxExit ...
MaxSignal == 1      \* ... or are killed by a signal: returncode in -MaxSignal..-1
MaxSize == 1        \* file sizes in 0..MaxSize
MaxEntries == 3     \* directory listings of at most MaxEntries entries

(***************************************************************************)
(* Program constants.                                                      *)
(***************************************************************************)
max_wait == 30          \* line 173
PollInterval == 2       \* lines 185-186
ClusterSettle == 5      \* line 135
SubmitSettle == 4       \* line 170
GraceDelay == 10        \* line 183
JobIdLen == 32          \* line 20
HttpTimeout == 5        \* line 83
InterruptStatus == 130  \* line 296
StatusModulus == 256    \* line 294: sys.exit(n) keeps the low 8 bits of n

ReturnCodes == (0 - MaxSignal) .. MaxExit
Commands == {"start", "submit", "savepoint", "tool", "resume"}

(***************************************************************************)
(* Process Runner: run_command, lines 52-72.                               *)
(* A child either cannot be spawned (subprocess.run raises OSError) or     *)
(* ends with a returncode: 0..MaxExit, or -n when killed by signal n.      *)
(***************************************************************************)
ChildOutcomes ==
    {[spawned |-> FALSE, returncode |-> 0]}
        \cup {[spawned |-> TRUE, returncode |-> c] : c \in ReturnCodes}

\* run_command(cmd, check): the exception it raises ("none" if it returns)
\* and the returncode of the CompletedProcess it returns.
run_command(o, check) ==
    IF ~o.spawned
        THEN [exc |-> "OSError", returncode |-> 0]
        ELSE IF check /\ o.returncode # 0
            THEN [exc |-> "RuntimeError", returncode |-> o.returncode]
            ELSE [exc |-> "none", returncode |-> o.returncode]

\* A fixed failure status in place of the child's code.
AlwaysOne(c) == 1

\* Python's `returncode or 1` (lines 162, 211, 285).
OrOne(c) == IF c = 0 THEN 1 ELSE c

(***************************************************************************)
(* Output Parser: JOB_ID_PATTERN and extract_job_id, lines 20, 75-77.      *)
(* Text is a sequence of one-character strings.                            *)
(***************************************************************************)
Marker == <<"J", "o", "b", "I", "D", " ">>
HexChars == {"0", "1", "2", "3", "4", "5", "6", "7", "8", "9",
             "a", "b", "c", "d", "e", "f"}

Rep(c, n) == [i \in 1..n |-> c]

\* A match of r"JobID ([a-f0-9]{32})" starts at position i of text.
MatchesAt(text, i) ==
    /\ i + Len(Marker) + JobIdLen - 1 <= Len(text)
    /\ SubSeq(text, i, i + Len(Marker) - 1) = Marker
    /\ \A k \in (i + Len(Marker)) .. (i + Len(Marker) + JobIdLen - 1) :
            text[k] \in HexChars

\* extract_job_id: group 1 of the leftmost match, <<>> for None.
extract_job_id(text) ==
    LET starts == {i \in 1..Len(text) : MatchesAt(text, i)}
    IN  IF starts = {}
            THEN <<>>
            ELSE LET i == CHOOSE j \in starts : \A k \in starts : j <= k
                 IN  <<SubSeq(text, i + Len(Marker), i + Len(Marker) + JobIdLen - 1)>>

\* The submission outputs the model draws from.
JobOutputs ==
    { <<>>,
      Marker \o Rep("a", JobIdLen - 1),
      Marker \o Rep("a", JobIdLen),
      <<"x", " ">> \o Marker \o Rep("0", JobIdLen - 1) \o <<"f", "\n">>,
      Marker \o Rep("a", JobIdLen - 1) \o <<"A">>,
      Marker \o Rep("a", JobIdLen) \o <<"b">> }

\* The submission outputs that hold a job id as the cluster prints it: the
\* marker followed by 32 lowercase hex characters and then no further one.
JobOutputsWithId ==
    { Marker \o Rep("a", JobIdLen),
      <<"x", " ">> \o Marker \o Rep("0", JobIdLen - 1) \o <<"f", "\n">> }

(***************************************************************************)
(* Status Poller: check_job_status, lines 80-87.                           *)
(***************************************************************************)
StateValues == {"RUNNING", "FAILED", "UNKNOWN", "running"}

\* What the GET of line 83 and json.load of line 84 can produce.
\*   refused, timeout : urlopen raises URLError / TimeoutError
\*   nonjson          : json.load raises JSONDecodeError
\*   object           : a JSON object, with a "state" member (state = <<s>>)
\*                      or without one (state = <<>>)
\*   nonobject        : valid JSON that is no object: an array, a string,
\*                      a number, null
HttpOutcomes ==
    {[kind |-> k, state |-> <<>>] :
        k \in {"refused", "timeout", "nonjson", "object", "nonobject"}}
        \cup {[kind |-> "object", state |-> <<s>>] : s \in StateValues}

\* check_job_status: the exception that escapes it ("none" if it returns)
\* and the status it returns.
check_job_status(h) ==
    IF h.kind \in {"refused", "timeout", "nonjson"}
        THEN [exc |-> "none", status |-> "UNKNOWN"]                \* line 86
        ELSE IF h.kind = "object"
            THEN [exc |-> "none",                                   \* line 87
                  status |-> IF h.state = <<>> THEN "UNKNOWN" ELSE h.state[1]]
            \* payload.get on a list, str, int or None: AttributeError,
            \* which line 85 does not catch
            ELSE [exc |-> "AttributeError", status |-> "UNKNOWN"]

(***************************************************************************)
(* State File Locator: the loop of lines 230-240.                          *)
(* A directory entry has a name, is a regular file or not, and a size      *)
(* (<<>> when candidate.stat() raises OSError).                            *)
(***************************************************************************)
MetadataName == "_metadata"
EntryNames == {MetadataName, "chk-0", "chk-1"}

Entries ==
    {[name |-> n, isFile |-> FALSE, size |-> <<>>] : n \in EntryNames}
        \cup {[name |-> n, isFile |-> TRUE, size |-> <<>>] : n \in EntryNames}
        \cup {[name |-> n, isFile |-> TRUE, size |-> <<z>>] :
                    n \in EntryNames, z \in 0..MaxSize}

\* iterdir() yields each name once, in an order the platform chooses.
Listings ==
    UNION {{l \in [1..k -> Entries] :
                \A i, j \in 1..k : i # j => l[i].name # l[j].name} :
           k \in 0..MaxEntries}

\* The savepoint directory holds a state file: a regular file, not the
\* metadata file, whose size can be read.
HasStateFile(l) ==
    \E i \in 1..Len(l) :
        l[i].isFile /\ l[i].name # MetadataName /\ l[i].size # <<>>

\* The for loop from entry i on, with the current max_size and target_file
\* (<<>> for None, else <<name>>).
RECURSIVE ScanFrom(_, _, _, _)
ScanFrom(l, i, max_size, target) ==
    IF i > Len(l)
        THEN target
        ELSE LET candidate == l[i]
             IN  IF candidate.isFile /\ candidate.name # MetadataName     \* line 233
                     THEN IF candidate.size = <<>>
                             THEN ScanFrom(l, i + 1, max_size, target)   \* line 237
                             ELSE IF candidate.size[1] > max_size        \* line 238
                                 THEN ScanFrom(l, i + 1, candidate.size[1],
                                               <<candidate.name>>)
                                 ELSE ScanFrom(l, i + 1, max_size, target)
                     ELSE ScanFrom(l, i + 1, max_size, target)

\* A scan that starts from max_size = 0: an empty file is never selected.
LocateFromZero(l) == ScanFrom(l, 1, 0, <<>>)

\* max_size = -1, target_file = None (lines 230-231), then the loop.
LocateStateFile(l) == ScanFrom(l, 1, 0 - 1, <<>>)

(***************************************************************************)
(* main(), lines 90-289, and the __main__ block, lines 292-296.            *)
(***************************************************************************)
Init ==
    /\ pc = "check_python_exec"
    /\ steps = <<>>
    /\ retval = <<>>
    /\ exc = "none"
    /\ exitStatus = <<>>
    /\ failedAt = "none"
    /\ missing = "none"
    /\ rc = [c \in Commands |-> <<>>]
    /\ job_output = <<>>
    /\ job_id = <<>>
    /\ job_status = "UNKNOWN"
    /\ wait_time = 0
    /\ checkedAt = <<>>
    /\ lastReturned = <<>>
    /\ reported = <<>>
    /\ elapsed = <<>>
    /\ savepoint = [hasPath |-> FALSE, exists |-> FALSE]
    /\ listing = <<>>
    /\ target_file = <<>>
    /\ origExists = FALSE
    /\ suffixExists = FALSE
    /\ revert = "none"
    /\ envOk = TRUE

\* `return value` from main.
Return(value) ==
    /\ pc' = "returned"
    /\ retval' = <<value>>
    /\ exc' = exc

\* An exception leaves main.
Raise(e) ==
    /\ pc' = "raised"
    /\ exc' = e
    /\ retval' = retval

\* Control moves on inside main.
Goto(next) ==
    /\ pc' = next
    /\ retval' = retval
    /\ exc' = exc

\* The first failure detected is the one recorded.
Fail(phase) == failedAt' = IF failedAt = "none" THEN phase ELSE failedAt

pollVars == <<job_status, wait_time, checkedAt, lastReturned, reported, elapsed>>

\* The environment hands main an input; `good` tells whether it is one a
\* successful run needs.
Env(good) == envOk' = (envOk /\ good)

\* d time units pass (when time is observed).
Tick(e, d) == IF e = <<>> THEN e ELSE <<e[1] + d>>
fileVars == <<savepoint, listing, target_file, origExists, suffixExists, revert>>
jobVars == <<job_output, job_id>>

\* A precondition that only warns: the missing path is reported and main goes on.
PreconditionWarnOnly(here, next, path) ==
    /\ pc = here
    /\ \E exists \in BOOLEAN :
        /\ Env(exists)
        /\ IF exists
            THEN /\ Goto(next)
                 /\ UNCHANGED <<failedAt, missing>>
            ELSE /\ Goto(next)
                 /\ missing' = path
                 /\ Fail("precondition")
    /\ UNCHANGED <<steps, exitStatus, rc, jobVars, pollVars, fileVars>>

\* One `if not path.exists(): return 1` of lines 95-125.
Precondition(here, next, path) ==
    /\ pc = here
    /\ \E exists \in BOOLEAN :
        /\ Env(exists)
        /\ IF exists
            THEN /\ Goto(next)
                 /\ UNCHANGED <<failedAt, missing>>
            ELSE /\ Return(1)
                 /\ missing' = path
                 /\ Fail("precondition")
    /\ UNCHANGED <<steps, exitStatus, rc, jobVars, pollVars, fileVars>>

CheckPythonExec == Precondition("check_python_exec", "check_job_py", "python_exec")  \* 94-97
CheckJobPy == Precondition("check_job_py", "check_swap_tool", "job_py")              \* 99-105
CheckSwapTool == Precondition("check_swap_tool", "check_start_cluster", "swap_tool") \* 107-113
CheckStartCluster == Precondition("check_start_cluster", "check_flink_cli", "start_cluster") \* 120-122
CheckFlinkCli == Precondition("check_flink_cli", "start", "flink_cli")               \* 123-125

\* Lines 131-132: run_command([start_cluster]) with check=True.
StartCluster ==
    /\ pc = "start"
    /\ steps' = Append(steps, "start")
    /\ \E o \in ChildOutcomes :
        LET r == run_command(o, TRUE)
        IN  /\ rc' = [rc EXCEPT !["start"] = IF o.spawned THEN <<o.returncode>> ELSE <<>>]
            /\ Env(o.spawned /\ o.returncode = 0)
            /\ IF r.exc # "none"
                   THEN Raise(r.exc) /\ Fail("start")
                   ELSE Goto("settle") /\ UNCHANGED failedAt
    /\ UNCHANGED <<exitStatus, missing, jobVars, pollVars, fileVars>>

\* A time.sleep(n): lines 135, 170, 183.
Sleep(here, next, what, n) ==
    /\ pc = here
    /\ steps' = Append(steps, what)
    /\ elapsed' = Tick(elapsed, n)
    /\ Goto(next)
    /\ UNCHANGED <<envOk, exitStatus, failedAt, missing, rc, jobVars, job_status, wait_time,
                   checkedAt, lastReturned, reported, fileVars>>

SettleCluster == Sleep("settle", "submit", "sleep5", ClusterSettle)   \* lines 134-135

\* A submission whose non-zero returncode is reported but does not end main.
SubmitGoesOn ==
    /\ pc = "submit"
    /\ steps' = Append(steps, "submit")
    /\ \E o \in ChildOutcomes, out \in JobOutputs :
        LET r == run_command(o, FALSE)
        IN  /\ rc' = [rc EXCEPT !["submit"] = IF o.spawned THEN <<o.returncode>> ELSE <<>>]
            /\ Env(o.spawned /\ o.returncode = 0 /\ out \in JobOutputsWithId)
            /\ IF r.exc # "none"
                   THEN Raise(r.exc) /\ Fail("submit_spawn") /\ UNCHANGED job_output
                   ELSE /\ job_output' = out
                        /\ Goto("extract")
                        /\ IF r.returncode # 0 THEN Fail("submit") ELSE UNCHANGED failedAt
    /\ UNCHANGED <<exitStatus, missing, job_id, pollVars, fileVars>>

\* Lines 153-162: the submission, check=False, then the returncode test.
Submit ==
    /\ pc = "submit"
    /\ steps' = Append(steps, "submit")
    /\ \E o \in ChildOutcomes, out \in JobOutputs :
        LET r == run_command(o, FALSE)
        IN  /\ rc' = [rc EXCEPT !["submit"] = IF o.spawned THEN <<o.returncode>> ELSE <<>>]
            /\ Env(o.spawned /\ o.returncode = 0 /\ out \in JobOutputsWithId)
            /\ IF r.exc # "none"
                   THEN Raise(r.exc) /\ Fail("submit_spawn") /\ UNCHANGED job_output
                   ELSE /\ job_output' = out                            \* line 157
                        /\ IF r.returncode # 0                          \* line 160
                               THEN Return(OrOne(r.returncode)) /\ Fail("submit")
                               ELSE Goto("extract") /\ UNCHANGED failedAt
    /\ UNCHANGED <<exitStatus, missing, job_id, pollVars, fileVars>>

\* Lines 164-168.
ExtractJobId ==
    /\ pc = "extract"
    /\ job_id' = extract_job_id(job_output)
    /\ IF job_id' = <<>>
           THEN Return(1) /\ Fail("job_id")
           ELSE Goto("settle_job") /\ UNCHANGED failedAt
    /\ UNCHANGED <<envOk, steps, exitStatus, missing, rc, job_output, pollVars, fileVars>>

SettleJob == Sleep("settle_job", "loop", "sleep4", SubmitSettle)      \* line 170

\* A loop test that also admits wait_time = max_wait: one check too many.
LoopContinuesInclusive(w) == w <= max_wait

\* A loop test that stops one interval early: the check at 28 is not made.
LoopContinuesShort(w) == w < max_wait - PollInterval

\* Line 176: `while wait_time < max_wait`.
LoopContinues(w) == w < max_wait

\* A RUNNING test that ignores case.
IsRunningAnyCase(status) == status \in {"RUNNING", "running"}

\* Line 179: `if job_status == "RUNNING"`.
IsRunning(status) == status = "RUNNING"

\* A timeout test that only rejects UNKNOWN.
NotRunningOnlyUnknown(status) == status = "UNKNOWN"

\* Line 188: `if job_status != "RUNNING"`.
NotRunning(status) == status # "RUNNING"

\* Line 176: the while condition.
LoopTest ==
    /\ pc = "loop"
    /\ IF LoopContinues(wait_time) THEN Goto("check") ELSE Goto("after_loop")
    /\ UNCHANGED <<envOk, steps, exitStatus, failedAt, missing, rc, jobVars, pollVars, fileVars>>

\* The time one call of check_job_status takes: urlopen is given
\* timeout=5 (line 83), so anything from 0 to HttpTimeout.
HttpDurations == 0..HttpTimeout

\* Lines 177-184: one status check and the RUNNING test.
CheckStatus ==
    /\ pc = "check"
    /\ steps' = Append(steps, "status")
    /\ checkedAt' = Append(checkedAt, wait_time)
    /\ \E d \in HttpDurations : elapsed' = Tick(elapsed, d)
    /\ \E h \in HttpOutcomes :
        LET r == check_job_status(h)
        IN  /\ Env(h.kind # "nonobject")
            /\ IF r.exc # "none"
                   THEN /\ Raise(r.exc)
                        /\ Fail("poller")
                        /\ UNCHANGED <<job_status, lastReturned>>
                   ELSE /\ job_status' = r.status                       \* line 177
                        /\ lastReturned' = <<r.status>>
                        /\ IF IsRunning(r.status)                       \* line 179
                               THEN Goto("grace")
                               ELSE Goto("interval")
                        /\ UNCHANGED failedAt
    /\ UNCHANGED <<exitStatus, missing, rc, jobVars, wait_time, reported, fileVars>>

\* Lines 183-184: the grace delay, then break.
GraceDelaySleep == Sleep("grace", "after_loop", "sleep10", GraceDelay)

\* A sleep between checks that counts one unit of waited time, not two.
PollSleepByOne ==
    /\ pc = "interval"
    /\ steps' = Append(steps, "sleep2")
    /\ wait_time' = wait_time + 1
    /\ elapsed' = Tick(elapsed, PollInterval)
    /\ Goto("loop")
    /\ UNCHANGED <<envOk, exitStatus, failedAt, missing, rc, jobVars, job_status, checkedAt,
                   lastReturned, reported, fileVars>>

\* Lines 185-186: time.sleep(2); wait_time += 2.
PollSleep ==
    /\ pc = "interval"
    /\ steps' = Append(steps, "sleep2")
    /\ wait_time' = wait_time + PollInterval
    /\ elapsed' = Tick(elapsed, PollInterval)
    /\ Goto("loop")
    /\ UNCHANGED <<envOk, exitStatus, failedAt, missing, rc, jobVars, job_status, checkedAt,
                   lastReturned, reported, fileVars>>

\* Lines 188-193.
AfterLoop ==
    /\ pc = "after_loop"
    /\ IF NotRunning(job_status)
           THEN Return(1) /\ Fail("timeout") /\ reported' = <<job_status>>
           ELSE Goto("savepoint") /\ UNCHANGED <<failedAt, reported>>
    /\ UNCHANGED <<envOk, steps, exitStatus, missing, rc, jobVars, job_status, wait_time,
                   checkedAt, lastReturned, elapsed, fileVars>>

\* Lines 195-211: the savepoint command, check=False, then the returncode test.
\* The output either holds a "Path: file:<token>" match or not, and the
\* path either exists on disk or not.
Savepoint ==
    /\ pc = "savepoint"
    /\ steps' = Append(steps, "savepoint")
    /\ \E o \in ChildOutcomes, hasPath \in BOOLEAN, exists \in BOOLEAN :
        LET r == run_command(o, FALSE)
        IN  /\ rc' = [rc EXCEPT !["savepoint"] = IF o.spawned THEN <<o.returncode>> ELSE <<>>]
            /\ Env(o.spawned /\ o.returncode = 0 /\ hasPath /\ exists)
            /\ IF r.exc # "none"
                   THEN Raise(r.exc) /\ Fail("savepoint_spawn") /\ UNCHANGED savepoint
                   ELSE IF r.returncode # 0                             \* line 207
                       THEN /\ Return(OrOne(r.returncode))              \* line 211
                            /\ Fail("savepoint")
                            /\ UNCHANGED savepoint
                       ELSE /\ savepoint' = [hasPath |-> hasPath,
                                             exists |-> hasPath /\ exists]
                            /\ Goto("savepoint_path")
                            /\ UNCHANGED failedAt
    /\ UNCHANGED <<exitStatus, missing, jobVars, pollVars, listing, target_file,
                   origExists, suffixExists, revert>>

\* Lines 213-228: the path must be in the output and exist on disk.
SavepointPath ==
    /\ pc = "savepoint_path"
    /\ IF ~savepoint.hasPath
           THEN Return(1) /\ Fail("savepoint_path")                     \* line 219
           ELSE IF ~savepoint.exists
               THEN Return(1) /\ Fail("savepoint_exists")               \* line 228
               ELSE Goto("locate") /\ UNCHANGED failedAt
    /\ UNCHANGED <<envOk, steps, exitStatus, missing, rc, jobVars, pollVars, fileVars>>

\* A locate step that reports the missing state file and goes on.
LocateWarnOnly ==
    /\ pc = "locate"
    /\ \E l \in Listings :
        /\ listing' = l
        /\ Env(HasStateFile(l))
        /\ target_file' = LocateStateFile(l)
    /\ IF target_file' = <<>>
           THEN Goto("rename") /\ Fail("no_state_file") /\ UNCHANGED origExists
           ELSE Goto("rename") /\ origExists' = TRUE /\ UNCHANGED failedAt
    /\ UNCHANGED <<steps, exitStatus, missing, rc, jobVars, pollVars, savepoint,
                   suffixExists, revert>>

\* Lines 230-246: pick the largest non-metadata file of the listing.
Locate ==
    /\ pc = "locate"
    /\ \E l \in Listings :
        /\ listing' = l
        /\ Env(HasStateFile(l))
        /\ target_file' = LocateStateFile(l)
    /\ IF target_file' = <<>>
           THEN Return(1) /\ Fail("no_state_file") /\ UNCHANGED origExists  \* line 244
           ELSE Goto("rename") /\ origExists' = TRUE /\ UNCHANGED failedAt
    /\ UNCHANGED <<steps, exitStatus, missing, rc, jobVars, pollVars, savepoint,
                   suffixExists, revert>>

\* Lines 248-249: target_file.rename(target_file_with_suffix); an OSError
\* of the rename leaves main. The loop of line 232 is over: its listing is
\* dropped, only target_file is used from here on.
RenameToSuffix ==
    /\ pc = "rename"
    /\ steps' = Append(steps, "rename")
    /\ listing' = <<>>
    /\ \E ok \in BOOLEAN :
        /\ Env(ok)
        /\ IF ok
            THEN /\ origExists' = FALSE
                 /\ suffixExists' = TRUE
                 /\ Goto("tool")
                 /\ UNCHANGED failedAt
            ELSE /\ Raise("OSError")
                 /\ Fail("rename")
                 /\ UNCHANGED <<origExists, suffixExists>>
    /\ UNCHANGED <<exitStatus, missing, rc, jobVars, pollVars, savepoint,
                   target_file, revert>>

\* A tool run with check=False: its exit code is not looked at.
RunToolUnchecked ==
    /\ pc = "tool"
    /\ steps' = Append(steps, "tool")
    /\ \E o \in ChildOutcomes :
        LET r == run_command(o, FALSE)
        IN  /\ rc' = [rc EXCEPT !["tool"] = IF o.spawned THEN <<o.returncode>> ELSE <<>>]
            /\ Env(o.spawned /\ o.returncode = 0)
            /\ IF r.exc # "none"
                   THEN Raise(r.exc) /\ Fail("tool_spawn")
                   ELSE Goto("rename_back") /\ UNCHANGED failedAt
    /\ UNCHANGED <<exitStatus, missing, jobVars, pollVars, fileVars>>

\* Lines 251-253: run_command([swap_tool, suffixed]) with check=True inside
\* try / except RuntimeError. Only RuntimeError enters the handler. The
\* tool changes the contents of the suffixed file, not its name.
RunTool ==
    /\ pc = "tool"
    /\ steps' = Append(steps, "tool")
    /\ \E o \in ChildOutcomes :
        LET r == run_command(o, TRUE)
        IN  /\ rc' = [rc EXCEPT !["tool"] = IF o.spawned THEN <<o.returncode>> ELSE <<>>]
            /\ Env(o.spawned /\ o.returncode = 0)
            /\ IF r.exc = "RuntimeError"
                   THEN Goto("handler") /\ Fail("tool")
                   ELSE IF r.exc # "none"
                       THEN Raise(r.exc) /\ Fail("tool_spawn")
                       ELSE Goto("rename_back") /\ UNCHANGED failedAt
    /\ UNCHANGED <<exitStatus, missing, jobVars, pollVars, fileVars>>

\* An except block that returns the tool's exit code instead of 1.
HandlerReturnsToolCode ==
    /\ pc = "handler"
    /\ IF suffixExists
           THEN /\ steps' = Append(steps, "revert")
                /\ \E ok \in BOOLEAN :
                    /\ Env(ok)
                    /\ IF ok
                        THEN /\ origExists' = TRUE
                             /\ suffixExists' = FALSE
                             /\ revert' = "ok"
                             /\ Return(rc["tool"][1])
                        ELSE /\ revert' = "failed"
                             /\ Raise("OSError")
                             /\ UNCHANGED <<origExists, suffixExists>>
           ELSE /\ revert' = "skipped"
                /\ UNCHANGED envOk
                /\ Return(rc["tool"][1])
                /\ UNCHANGED <<steps, origExists, suffixExists>>
    /\ UNCHANGED <<exitStatus, failedAt, missing, rc, jobVars, pollVars, savepoint,
                   listing, target_file>>

\* An except block that, after a revert that worked, tries the rename and
\* the tool a second time.
HandlerRetriesOnce ==
    /\ pc = "handler"
    /\ IF suffixExists
           THEN /\ steps' = Append(steps, "revert")
                /\ \E ok \in BOOLEAN :
                    /\ Env(ok)
                    /\ IF ok
                        THEN /\ origExists' = TRUE
                             /\ suffixExists' = FALSE
                             /\ revert' = "ok"
                             /\ IF Len(SelectSeq(steps, LAMBDA x : x = "tool")) < 2
                                    THEN Goto("rename")
                                    ELSE Return(1)
                        ELSE /\ revert' = "failed"
                             /\ Raise("OSError")
                             /\ UNCHANGED <<origExists, suffixExists>>
           ELSE /\ revert' = "skipped"
                /\ UNCHANGED envOk
                /\ Return(1)
                /\ UNCHANGED <<steps, origExists, suffixExists>>
    /\ UNCHANGED <<exitStatus, failedAt, missing, rc, jobVars, pollVars, savepoint,
                   listing, target_file>>

\* Lines 254-258: the except block: revert the rename if the suffixed file
\* is there, then return 1. An OSError of the revert rename leaves main.
Handler ==
    /\ pc = "handler"
    /\ IF suffixExists                                                  \* line 256
           THEN /\ steps' = Append(steps, "revert")
                /\ \E ok \in BOOLEAN :
                    /\ Env(ok)
                    /\ IF ok
                        THEN /\ origExists' = TRUE
                             /\ suffixExists' = FALSE
                             /\ revert' = "ok"
                             /\ Return(1)                               \* line 258
                        ELSE /\ revert' = "failed"
                             /\ Raise("OSError")
                             /\ UNCHANGED <<origExists, suffixExists>>
           ELSE /\ revert' = "skipped"
                /\ UNCHANGED envOk
                /\ Return(1)
                /\ UNCHANGED <<steps, origExists, suffixExists>>
    /\ UNCHANGED <<exitStatus, failedAt, missing, rc, jobVars, pollVars, savepoint,
                   listing, target_file>>

\* Line 260: the rename back after the tool succeeded.
RenameBack ==
    /\ pc = "rename_back"
    /\ steps' = Append(steps, "rename_back")
    /\ \E ok \in BOOLEAN :
        /\ Env(ok)
        /\ IF ok
            THEN /\ origExists' = TRUE
                 /\ suffixExists' = FALSE
                 /\ Goto("resume")
                 /\ UNCHANGED failedAt
            ELSE /\ Raise("OSError")
                 /\ Fail("rename_back")
                 /\ UNCHANGED <<origExists, suffixExists>>
    /\ UNCHANGED <<exitStatus, missing, rc, jobVars, pollVars, savepoint, listing,
                   target_file, revert>>

\* Lines 262-289: the resume command, check=False, then the returncode test.
Resume ==
    /\ pc = "resume"
    /\ steps' = Append(steps, "resume")
    /\ \E o \in ChildOutcomes :
        LET r == run_command(o, FALSE)
        IN  /\ rc' = [rc EXCEPT !["resume"] = IF o.spawned THEN <<o.returncode>> ELSE <<>>]
            /\ Env(o.spawned /\ o.returncode = 0)
            /\ IF r.exc # "none"
                   THEN Raise(r.exc) /\ Fail("resume_spawn")
                   ELSE IF r.returncode # 0                             \* line 283
                       THEN Return(OrOne(r.returncode)) /\ Fail("resume")
                       ELSE Return(0) /\ UNCHANGED failedAt             \* line 289
    /\ UNCHANGED <<exitStatus, missing, jobVars, pollVars, fileVars>>

\* The positions of main where it waits inside a call (a child process, a
\* sleep, the HTTP request), and the step that call is.
BlockingStep ==
    [start |-> "start", settle |-> "sleep5", submit |-> "submit",
     settle_job |-> "sleep4", check |-> "status", grace |-> "sleep10",
     interval |-> "sleep2", savepoint |-> "savepoint", tool |-> "tool",
     resume |-> "resume"]

MainPositions ==
    {"check_python_exec", "check_job_py", "check_swap_tool", "check_start_cluster",
     "check_flink_cli", "start", "settle", "submit", "extract", "settle_job", "loop",
     "check", "grace", "interval", "after_loop", "savepoint", "savepoint_path",
     "locate", "rename", "tool", "handler", "rename_back", "resume"}

\* The caller interrupts: KeyboardInterrupt is raised at the current position
\* of main (inside the call main is waiting in, if it is in one); no handler
\* in main catches it.
Interrupt ==
    /\ pc \in MainPositions
    /\ steps' = IF pc \in DOMAIN BlockingStep THEN Append(steps, BlockingStep[pc])
                                              ELSE steps
    /\ checkedAt' = IF pc = "check" THEN Append(checkedAt, wait_time) ELSE checkedAt
    /\ Raise("KeyboardInterrupt")
    /\ Env(FALSE)
    /\ Fail("interrupt")
    /\ UNCHANGED <<exitStatus, missing, rc, jobVars, job_status, wait_time,
                   lastReturned, reported, elapsed, fileVars>>

\* sys.exit(n) ends the process with the low 8 bits of n (line 294).
StatusOf(n) == n % StatusModulus

\* An entry point without the except clause of lines 295-296: the
\* interrupt ends the interpreter like any other uncaught exception.
SysExitUncaught ==
    /\ pc \in {"returned", "raised"}
    /\ pc' = "exited"
    /\ exitStatus' = IF pc = "returned" THEN <<StatusOf(retval[1])>> ELSE <<1>>
    /\ UNCHANGED <<envOk, steps, retval, exc, failedAt, missing, rc, jobVars, pollVars, fileVars>>

\* Lines 292-296: sys.exit(main()); KeyboardInterrupt exits 130; any other
\* uncaught exception ends the interpreter with a traceback and status 1.
SysExit ==
    /\ pc \in {"returned", "raised"}
    /\ pc' = "exited"
    /\ exitStatus' = IF pc = "returned"
                        THEN <<StatusOf(retval[1])>>
                        ELSE IF exc = "KeyboardInterrupt"
                            THEN <<InterruptStatus>>
                            ELSE <<1>>
    /\ UNCHANGED <<envOk, steps, retval, exc, failedAt, missing, rc, jobVars, pollVars, fileVars>>

Next ==
    \/ CheckPythonExec
    \/ CheckJobPy
    \/ CheckSwapTool
    \/ CheckStartCluster
    \/ CheckFlinkCli
    \/ StartCluster
    \/ SettleCluster
    \/ Submit
    \/ ExtractJobId
    \/ SettleJob
    \/ LoopTest
    \/ CheckStatus
    \/ GraceDelaySleep
    \/ PollSleep
    \/ AfterLoop
    \/ Savepoint
    \/ SavepointPath
    \/ Locate
    \/ RenameToSuffix
    \/ RunTool
    \/ Handler
    \/ RenameBack
    \/ Resume
    \/ Interrupt
    \/ SysExit

Spec == Init /\ [][Next]_vars

\* main is one sequential thread: as long as a step is possible, one is
\* taken (every external call returns).
SpecFair == Spec /\ WF_vars(Next)

(***************************************************************************)
(* The poll loop of lines 172-193 with time observed: main has started the *)
(* cluster, submitted the job, extracted its id and slept 4 units; the     *)
(* clock starts as the first status check begins.                          *)
(***************************************************************************)
InitPoll ==
    /\ pc = "loop"
    /\ steps = <<"start", "sleep5", "submit", "sleep4">>
    /\ retval = <<>>
    /\ exc = "none"
    /\ exitStatus = <<>>
    /\ failedAt = "none"
    /\ missing = "none"
    /\ rc = [c \in Commands |-> IF c \in {"start", "submit"} THEN <<0>> ELSE <<>>]
    /\ job_output \in {out \in JobOutputs : extract_job_id(out) # <<>>}
    /\ job_id = extract_job_id(job_output)
    /\ job_status = "UNKNOWN"
    /\ wait_time = 0
    /\ checkedAt = <<>>
    /\ lastReturned = <<>>
    /\ reported = <<>>
    /\ elapsed = <<0>>
    /\ savepoint = [hasPath |-> FALSE, exists |-> FALSE]
    /\ listing = <<>>
    /\ target_file = <<>>
    /\ origExists = FALSE
    /\ suffixExists = FALSE
    /\ revert = "none"
    /\ envOk = TRUE

\* The steps of the loop, up to the return of line 193 or the savepoint
\* position, and the end of the process.
NextPoll ==
    \/ LoopTest
    \/ CheckStatus
    \/ GraceDelaySleep
    \/ PollSleep
    \/ AfterLoop
    \/ pc \in {"loop", "check", "grace", "interval", "after_loop"} /\ Interrupt
    \/ SysExit

SpecPoll == InitPoll /\ [][NextPoll]_vars

(***************************************************************************)
(* Vocabulary of the properties.                                           *)
(***************************************************************************)
Ended == pc = "exited"
Has(step) == \E i \in 1..Len(steps) : steps[i] = step
Count(step) == Cardinality({i \in 1..Len(steps) : steps[i] = step})

\* The place of each step in the pipeline. The status check and the sleep
\* between two checks share the place of the poll loop; the revert rename of
\* the except block (line 257) stands where the rename back (line 260) does.
Place ==
    [start |-> 1, sleep5 |-> 2, submit |-> 3, sleep4 |-> 4, status |-> 5,
     sleep2 |-> 5, sleep10 |-> 6, savepoint |-> 7, rename |-> 8, tool |-> 9,
     rename_back |-> 10, revert |-> 10, resume |-> 11]

InLoop(step) == step \in {"status", "sleep2"}

ForwardOrder ==
    \A i, j \in 1..Len(steps) :
        i < j => \/ Place[steps[i]] < Place[steps[j]]
                 \/ InLoop(steps[i]) /\ InLoop(steps[j])

\* After a failure was detected main is over, or it is in the except block
\* of the mutation step (the rollback edge).
NothingAfterFailure ==
    failedAt # "none" =>
        \/ pc \in {"returned", "raised", "exited"}
        \/ pc = "handler" /\ failedAt = "tool"

\* Once a failure was detected the only step still invoked is the revert
\* rename of the rollback, and only for a failure of the mutation tool.
OnlyRollbackAfterFailure ==
    failedAt # "none" =>
        \/ steps' = steps
        \/ failedAt = "tool" /\ pc = "handler" /\ steps' = Append(steps, "revert")

FailureExitsNonZero ==
    (Ended /\ failedAt # "none") => exitStatus # <<0>>

\* C1: in every run the steps (start-cluster, submit, status checks,
\* savepoint, rename to the suffix, mutation tool, rename back, resume, with
\* the sleeps between them) are invoked in this forward order only; once a
\* fatal failure is detected no later step of the pipeline is invoked (what
\* remains is at most the revert rename of the except block, line 257, the
\* rollback of the mutation step), and the process exits non-zero.
C1_ForwardOrderAndAbort ==
    /\ [](ForwardOrder /\ NothingAfterFailure /\ FailureExitsNonZero)
    /\ [][OnlyRollbackAfterFailure]_vars

\* A run that got as far as the mutation tool, whose failure ended it after
\* the rollback.
C1_Witness ==
    /\ Ended
    /\ failedAt = "tool"
    /\ steps[Len(steps)] = "revert"
    /\ revert = "ok"
    /\ exitStatus = <<1>>

(***************************************************************************)
(* C2                                                                      *)
(***************************************************************************)
EveryPhaseSucceeded ==
    /\ rc["start"] = <<0>>
    /\ rc["submit"] = <<0>>
    /\ job_id # <<>>
    /\ lastReturned = <<"RUNNING">>
    /\ Len(checkedAt) <= 15
    /\ rc["savepoint"] = <<0>>
    /\ savepoint.hasPath /\ savepoint.exists
    /\ target_file # <<>>
    /\ rc["tool"] = <<0>>
    /\ Has("rename_back") /\ origExists /\ ~suffixExists
    /\ rc["resume"] = <<0>>

\* C2: the process ends with exit status 0 if and only if every phase
\* succeeded: cluster start, submission, job-id extraction, a RUNNING
\* observation within the poll budget, the savepoint command, the savepoint
\* path found and existing, a state file located, the mutation tool, the
\* rename back and the resume command.
C2_ZeroIffAllPhases ==
    Ended => (exitStatus = <<0>> <=> EveryPhaseSucceeded)

C2_Witness ==
    /\ Ended
    /\ exitStatus = <<0>>
    /\ EveryPhaseSucceeded
    /\ checkedAt = <<0, 2, 4>>

(***************************************************************************)
(* C3                                                                      *)
(***************************************************************************)
\* The checks of a poll loop that never sees RUNNING: at waited time
\* 0, 2, ..., 28.
FifteenChecks == [i \in 1..15 |-> 2 * (i - 1)]

\* C3: no status other than RUNNING ends the poll loop early: when the loop
\* is left with a last status that is not RUNNING, a status check was made
\* at waited time 0, 2, ..., 28 (15 checks); main then fails with exit
\* status 1, the status it reports is the one the last check returned, and
\* the savepoint command is never invoked.
C3_OnlyRunningEndsLoop ==
    /\ (pc = "after_loop" /\ lastReturned # <<"RUNNING">>) => checkedAt = FifteenChecks
    /\ failedAt = "timeout" =>
            /\ checkedAt = FifteenChecks
            /\ retval = <<1>>
            /\ reported = lastReturned
            /\ reported # <<"RUNNING">>
            /\ ~Has("savepoint")
            /\ Ended => exitStatus = <<1>>

\* The poll budget ran out on a cluster-reported failure state.
C3_Witness ==
    /\ Ended
    /\ failedAt = "timeout"
    /\ reported = <<"FAILED">>
    /\ Len(checkedAt) = 15

(***************************************************************************)
(* C4                                                                      *)
(***************************************************************************)
AfterPoll ==
    {"savepoint", "savepoint_path", "locate", "rename", "tool", "handler",
     "rename_back", "resume"}

\* Once a check returned RUNNING no further status check is made.
NoCheckAfterRunning == lastReturned = <<"RUNNING">> => checkedAt' = checkedAt

\* C4: the savepoint command is invoked only if a status check returned
\* exactly RUNNING; after the first RUNNING no further status check is made,
\* the 10-unit grace delay is applied exactly once before the savepoint
\* phase, it is never applied when no check returned RUNNING, and a last
\* status other than RUNNING never lets the run past the poll loop.
C4_SavepointOnlyAfterRunning ==
    /\ [](/\ Has("savepoint") => (lastReturned = <<"RUNNING">> /\ Count("sleep10") = 1)
          /\ Count("sleep10") <= 1
          /\ Has("sleep10") => lastReturned = <<"RUNNING">>
          /\ lastReturned # <<"RUNNING">> => pc \notin AfterPoll
          /\ pc \in AfterPoll => Count("sleep10") = 1)
    /\ [][NoCheckAfterRunning]_vars

\* UNKNOWN, UNKNOWN, RUNNING: the third check saw RUNNING and the savepoint
\* command was invoked.
C4_Witness ==
    /\ Has("savepoint")
    /\ checkedAt = <<0, 2, 4>>
    /\ lastReturned = <<"RUNNING">>
    /\ Count("sleep10") = 1

(***************************************************************************)
(* C5, C6                                                                  *)
(***************************************************************************)
\* The mutation tool was invoked on the suffixed file and the invocation
\* failed: the tool exited non-zero, or it could not be spawned.
ToolInvocationFailed ==
    /\ Has("tool")
    /\ \/ rc["tool"] \notin {<<>>, <<0>>}
       \/ failedAt = "tool_spawn"

OriginalRestored == origExists /\ ~suffixExists

\* C5: if the invocation of the mutation tool fails after the rename to the
\* suffixed name, then at the end of the run the original name exists again
\* and the suffixed one does not, unless the revert rename itself failed, in
\* which case the suffixed name persists and the exit status is non-zero; in
\* both cases the resume command is not invoked. (Stated for runs the caller
\* does not interrupt.)
C5_RollbackOnToolFailure ==
    (Ended /\ ToolInvocationFailed /\ exc # "KeyboardInterrupt") =>
        /\ \/ OriginalRestored
           \/ revert = "failed" /\ suffixExists /\ ~origExists /\ exitStatus # <<0>>
        /\ ~Has("resume")

\* C6: at the end of every run in which the rename to the suffixed name was
\* made, whatever the exit path out of the mutation step (tool exits zero,
\* exits non-zero, cannot be spawned, caller interrupt), the state file is
\* under its original name, unless a rename back to it (the revert rename
\* of line 257 or the rename back of line 260) was attempted and failed.
C6_NeverLeftSuffixed ==
    (Ended /\ Has("tool")) =>
        \/ OriginalRestored
        \/ revert = "failed"
        \/ failedAt = "rename_back"

(***************************************************************************)
(* C7                                                                      *)
(***************************************************************************)
PreconditionChecks ==
    {"check_python_exec", "check_job_py", "check_swap_tool", "check_start_cluster",
     "check_flink_cli"}

NoSideEffect ==
    /\ steps = <<>>
    /\ checkedAt = <<>>
    /\ rc = [c \in Commands |-> <<>>]
    /\ ~origExists /\ ~suffixExists

\* C7: the five filesystem preconditions are checked before any side
\* effect: while one of them is still to be checked nothing has been
\* invoked, and when one is found missing main returns 1 (exit status 1)
\* without any external command, status check, sleep or rename.
C7_PreconditionsFirst ==
    /\ pc \in PreconditionChecks => NoSideEffect
    /\ missing # "none" =>
            /\ NoSideEffect
            /\ pc \in {"returned", "exited"}
            /\ retval = <<1>>
            /\ Ended => exitStatus = <<1>>

\* The last precondition, the flink CLI, was the missing one.
C7_Witness ==
    /\ Ended
    /\ missing = "flink_cli"
    /\ exitStatus = <<1>>

(***************************************************************************)
(* C8                                                                      *)
(***************************************************************************)
\* C8: check_job_status never lets an error escape: no status check ends
\* main with an exception of the poller.
C8_PollerNeverRaises == failedAt # "poller"

(***************************************************************************)
(* C9, C10                                                                 *)
(***************************************************************************)
\* The run was ended by the failure of `phase` (not by a caller interrupt).
EndedBy(phase) == Ended /\ failedAt = phase /\ exc # "KeyboardInterrupt"

\* The failures other than a non-zero exit of the submission, savepoint or
\* resume command.
StatusOneFailures ==
    {"precondition", "start", "submit_spawn", "job_id", "poller", "timeout",
     "savepoint_spawn", "savepoint_path", "savepoint_exists", "no_state_file",
     "rename", "tool", "tool_spawn", "rename_back", "resume_spawn"}

\* C9 as stated: every precondition failure and every fatal-phase failure
\* other than a non-zero exit of the submission or resume command, a
\* non-zero exit of the savepoint command included, ends the process with
\* exit status exactly 1.
C9_AllButSubmitResumeExitOne ==
    \A phase \in StatusOneFailures \cup {"savepoint"} :
        EndedBy(phase) => exitStatus = <<1>>

\* C9 amended: every precondition failure and every fatal-phase failure
\* other than a non-zero exit of the submission, the savepoint or the resume
\* command ends the process with exit status exactly 1, whatever exit code
\* the failing child returned; a non-zero exit code c of the savepoint
\* command is the value main returns (exit status c mod 256, never 0).
C9_ExitOneExceptCommands ==
    /\ \A phase \in StatusOneFailures : EndedBy(phase) => exitStatus = <<1>>
    /\ EndedBy("savepoint") =>
            /\ retval = rc["savepoint"]
            /\ exitStatus = <<rc["savepoint"][1] % 256>>
            /\ exitStatus # <<0>>

\* The mutation tool exited with a code other than 1 and the process with 1.
C9_Witness ==
    /\ EndedBy("tool")
    /\ rc["tool"] = <<2>>
    /\ exitStatus = <<1>>

\* C10: when the submission or the resume command exits with a non-zero
\* code c, main returns exactly c, never 0; after a failed submission there
\* is no job-id extraction, status check, savepoint or rename.
C10_SubmitResumeCodePropagated ==
    /\ rc["submit"] \notin {<<>>, <<0>>} =>
            /\ pc \in {"returned", "exited"}
            /\ retval = rc["submit"]
            /\ retval # <<0>>
            /\ job_id = <<>>
            /\ steps = <<"start", "sleep5", "submit">>
            /\ checkedAt = <<>>
            /\ ~origExists /\ ~suffixExists
    /\ rc["resume"] \notin {<<>>, <<0>>} =>
            /\ pc \in {"returned", "exited"}
            /\ retval = rc["resume"]
            /\ retval # <<0>>

\* A submission that exited with a code other than 1, although its output
\* held a job id.
C10_Witness ==
    /\ Ended
    /\ rc["submit"] = <<2>>
    /\ retval = <<2>>
    /\ exitStatus = <<2>>
    /\ extract_job_id(job_output) # <<>>

(***************************************************************************)
(* C11                                                                     *)
(***************************************************************************)
\* C11: the poll loop keeps a wall-clock budget of 30 time units whatever
\* the status checks cost: when every check takes between 0 and 5 units and
\* RUNNING is never observed, the timeout failure is reported no later than
\* 30 units after the first status check began.
C11_TimeoutWithinThirtyUnits ==
    (failedAt = "timeout" /\ elapsed # <<>>) => elapsed[1] <= 30

(***************************************************************************)
(* C12                                                                     *)
(***************************************************************************)
RECURSIVE PollSteps(_)
PollSteps(k) == IF k <= 1 THEN <<"status">>
                          ELSE <<"status", "sleep2">> \o PollSteps(k - 1)

\* The steps of a complete run whose k-th status check saw RUNNING.
FullRun(k) ==
    <<"start", "sleep5", "submit", "sleep4">> \o PollSteps(k)
        \o <<"sleep10", "savepoint", "rename", "tool", "rename_back", "resume">>

\* With good inputs only, the one failure main can end in is the poll
\* timeout, and only after RUNNING failed to appear in 15 checks.
NoFailureOnGoodInputs ==
    (envOk /\ failedAt # "none") =>
        /\ failedAt = "timeout"
        /\ Len(checkedAt) = 15
        /\ lastReturned # <<"RUNNING">>

GoodRunEndsZero ==
    (Ended /\ envOk /\ lastReturned = <<"RUNNING">>) =>
        /\ exitStatus = <<0>>
        /\ Len(checkedAt) \in 1..15
        /\ steps = FullRun(Len(checkedAt))

\* C12: when the cluster start, the submission (with a job id in its
\* output), the savepoint (with an existing path holding a state file), the
\* mutation tool, the renames and the resume all succeed, and RUNNING
\* appears within the first 15 status checks, main goes through all phases
\* in order and the process exits 0.
C12_EndToEndSuccess ==
    /\ [](NoFailureOnGoodInputs /\ GoodRunEndsZero)
    /\ (envOk /\ lastReturned = <<"RUNNING">>) ~> ((Ended /\ exitStatus = <<0>>) \/ ~envOk)

\* UNKNOWN, UNKNOWN, RUNNING and everything else succeeding.
C12_Witness ==
    /\ Ended
    /\ envOk
    /\ exitStatus = <<0>>
    /\ steps = FullRun(3)
    /\ origExists /\ ~suffixExists

(***************************************************************************)
(* C13                                                                     *)
(***************************************************************************)
\* The entries of a listing that can be selected: regular files other than
\* the metadata file whose size can be read.
Candidates(l) ==
    {i \in 1..Len(l) : l[i].isFile /\ l[i].name # MetadataName /\ l[i].size # <<>>}

\* The first candidate, in listing order, of maximal size.
FirstLargest(l) ==
    CHOOSE i \in Candidates(l) :
        /\ \A j \in Candidates(l) : l[j].size[1] <= l[i].size[1]
        /\ \A j \in Candidates(l) : l[j].size[1] = l[i].size[1] => i <= j

\* C13: for every directory listing the selected target is a regular file
\* not named _metadata whose readable size is the maximum among all such
\* files (a maximum of 0 bytes included); files whose size cannot be read
\* are skipped without aborting; among equal maxima the first in listing
\* order is selected; one file is selected whenever there is such a file.
C13_LargestFirstSeen ==
    /\ pc = "rename" => (listing # <<>> /\ target_file # <<>>)
    /\ listing # <<>> =>
            IF Candidates(listing) = {}
                THEN target_file = <<>>
                ELSE /\ target_file = <<listing[FirstLargest(listing)].name>>
                     /\ failedAt # "no_state_file"

\* The metadata file, larger than any other, then two empty files: the
\* first empty one is selected.
C13_Witness ==
    /\ pc = "rename"
    /\ Len(listing) = 3
    /\ listing[1].name = MetadataName /\ listing[1].isFile /\ listing[1].size = <<1>>
    /\ listing[2].isFile /\ listing[2].size = <<0>>
    /\ listing[3].isFile /\ listing[3].size = <<0>>
    /\ target_file = <<listing[2].name>>

(***************************************************************************)
(* C14                                                                     *)
(***************************************************************************)
RECURSIVE HexRunLen(_, _)
\* The length of the longest run of lowercase hex characters that starts at
\* position k of text.
HexRunLen(text, k) ==
    IF k > Len(text) \/ text[k] \notin HexChars
        THEN 0
        ELSE 1 + HexRunLen(text, k + 1)

\* The positions where the marker stands and is followed by a run of exactly
\* 32 lowercase hex characters.
ExactIdStarts(text) ==
    {i \in 1..Len(text) :
        /\ i + Len(Marker) - 1 <= Len(text)
        /\ SubSeq(text, i, i + Len(Marker) - 1) = Marker
        /\ HexRunLen(text, i + Len(Marker)) = 32}

\* extract_job_id has just been applied to the submission output.
Extracted == pc = "settle_job" \/ failedAt = "job_id"

\* C14: extract_job_id returns a value if and only if the input holds the
\* marker "JobID " followed by exactly 32 lowercase hex characters, the value
\* being those 32 characters of the first such occurrence; a marker followed
\* by a hex run that is not exactly 32 long yields absent; it never raises.
C14_ExactlyThirtyTwoHex ==
    Extracted =>
        /\ exc = "none"
        /\ IF ExactIdStarts(job_output) = {}
               THEN job_id = <<>>
               ELSE LET i == CHOOSE j \in ExactIdStarts(job_output) :
                                \A k \in ExactIdStarts(job_output) : j <= k
                    IN  job_id = <<SubSeq(job_output, i + Len(Marker),
                                          i + Len(Marker) + 31)>>

(***************************************************************************)
(* C15                                                                     *)
(***************************************************************************)
\* C15: no phase is retried: in one run the start-cluster command, the
\* submission command, the savepoint command, the mutation tool and the
\* resume command are each invoked at most once and the revert rename is
\* attempted at most once; only the status check is repeated, at most 15
\* times.
C15_NoRetry ==
    /\ \A c \in Commands : Count(c) <= 1
    /\ Count("revert") <= 1
    /\ Count("status") <= 15
    /\ Len(checkedAt) <= 15

\* A run whose 15th check saw RUNNING and whose tool then failed: every
\* command up to the tool was invoked once and the revert was attempted once.
C15_Witness ==
    /\ Ended
    /\ Count("status") = 15
    /\ Count("start") = 1 /\ Count("submit") = 1 /\ Count("savepoint") = 1
    /\ Count("tool") = 1
    /\ Count("revert") = 1
    /\ failedAt = "tool"

(***************************************************************************)
(* C16                                                                     *)
(***************************************************************************)
\* This step invokes the command: the command enters the step history.
Invokes(c) ==
    /\ Len(steps') = Len(steps) + 1
    /\ steps'[Len(steps')] = c

\* The file is under its suffixed name: the rename of line 249 was made and
\* nothing has renamed it back.
UnderSuffix ==
    /\ Has("rename")
    /\ suffixExists
    /\ ~origExists

\* The tool exited zero and the rename back of line 260 was made.
MutatedAndRestored ==
    /\ rc["tool"] = <<0>>
    /\ Has("tool")
    /\ Has("rename_back")
    /\ ~Has("revert")
    /\ origExists
    /\ ~suffixExists

\* C16: the mutation tool is invoked only while the state file is under its
\* suffixed name (the rename to the suffix completed, the original name is
\* absent); the resume command is invoked only after the tool exited zero
\* and the rename back completed, so that when resume is invoked the
\* original name exists and the suffixed name does not.
C16_RenameProtocol ==
    [][/\ Invokes("tool") => UnderSuffix
       /\ Invokes("resume") => MutatedAndRestored]_vars

\* The resume command has been invoked, after the tool.
C16_Witness ==
    /\ Has("resume")
    /\ rc["resume"] # <<>>
    /\ steps[Len(steps)] = "resume"
    /\ steps[Len(steps) - 1] = "rename_back"
    /\ steps[Len(steps) - 2] = "tool"
    /\ steps[Len(steps) - 3] = "rename"
    /\ pc = "returned"

(***************************************************************************)
(* C17                                                                     *)
(***************************************************************************)
\* This step reads the savepoint directory and finds no file to select.
ListsNoStateFile ==
    /\ pc = "locate"
    /\ pc' # "locate"
    /\ exc' # "KeyboardInterrupt"
    /\ Candidates(listing') = {}

\* Nothing was done to the files of the savepoint.
FilesUntouched ==
    /\ ~Has("rename") /\ ~Has("revert") /\ ~Has("rename_back")
    /\ ~origExists /\ ~suffixExists
    /\ target_file = <<>>

\* C17: when the savepoint directory holds no regular file other than
\* _metadata (or only files whose size cannot be read), main fails with exit
\* status 1 and leaves the filesystem unchanged: no rename is made and
\* neither the mutation tool nor the resume command is invoked.
C17_NoStateFileFailsClean ==
    /\ [][ListsNoStateFile =>
            /\ pc' = "returned"
            /\ retval' = <<1>>
            /\ failedAt' = "no_state_file"
            /\ steps' = steps]_vars
    /\ [](failedAt = "no_state_file" =>
            /\ pc \in {"returned", "exited"}
            /\ Ended => exitStatus = <<1>>
            /\ FilesUntouched
            /\ ~Has("tool") /\ ~Has("resume"))

\* A savepoint directory with the metadata file, a data file whose size
\* cannot be read and a subdirectory: the run has ended with status 1.
C17_Witness ==
    /\ Ended
    /\ failedAt = "no_state_file"
    /\ exitStatus = <<1>>
    /\ Len(listing) = 3
    /\ \E i, j, k \in 1..3 :
        /\ listing[i].name = MetadataName /\ listing[i].isFile /\ listing[i].size # <<>>
        /\ listing[j].name # MetadataName /\ listing[j].isFile /\ listing[j].size = <<>>
        /\ listing[k].name # MetadataName /\ ~listing[k].isFile
    /\ Has("savepoint") /\ ~Has("tool")

(***************************************************************************)
(* C18                                                                     *)
(***************************************************************************)
Interrupted == exc = "KeyboardInterrupt"

\* The one step left to an interrupted run is the exit: nothing is invoked,
\* no file is renamed.
OnlyExitsOnceInterrupted ==
    [][Interrupted =>
            /\ pc' = "exited"
            /\ exitStatus' = <<130>>
            /\ steps' = steps
            /\ checkedAt' = checkedAt
            /\ rc' = rc
            /\ UNCHANGED <<origExists, suffixExists, revert>>]_vars

\* C18: a KeyboardInterrupt delivered at any point of the run (in any phase,
\* inside the poll loop, during a settle delay, while the except block of
\* the tool failure is running) ends the process with exit status 130, and
\* no further phase is attempted.
C18_InterruptExits130 ==
    /\ OnlyExitsOnceInterrupted
    /\ [](\A p \in MainPositions : pc = p => ENABLED Interrupt)
    /\ []((Interrupted /\ Ended) => exitStatus = <<130>>)
    /\ Interrupted ~> (Ended /\ exitStatus = <<130>>)

\* The interrupt came while the except block of the tool failure was
\* running, before its revert rename: the process ended with status 130.
C18_Witness ==
    /\ Interrupted
    /\ Ended
    /\ exitStatus = <<130>>
    /\ failedAt = "tool"
    /\ rc["tool"] \notin {<<>>, <<0>>}
    /\ ~Has("revert")
    /\ steps[Len(steps)] = "tool"

(***************************************************************************)
(* C19                                                                     *)
(***************************************************************************)
\* A check that did not see RUNNING has returned; main is about to sleep.
AfterNonRunningCheck ==
    /\ pc = "interval"
    /\ lastReturned # <<>>
    /\ lastReturned[1] # "RUNNING"

\* The waited-time counter grows by 2 after every check that did not see
\* RUNNING, and changes at no other step.
WaitGrowsByTwo ==
    /\ [](pc = "interval" => AfterNonRunningCheck)
    /\ [][(AfterNonRunningCheck /\ exc' # "KeyboardInterrupt")
            => (wait_time' = wait_time + 2 /\ pc' = "loop")]_vars
    /\ [][wait_time' # wait_time
            => (AfterNonRunningCheck /\ wait_time' = wait_time + 2)]_vars

\* The i-th check is made at waited time 2 * (i - 1), and there is no 16th.
NoSixteenthCheck ==
    /\ Len(checkedAt) <= 15
    /\ \A i \in 1..Len(checkedAt) : checkedAt[i] = 2 * (i - 1)
    /\ wait_time <= 30

\* C19: provided every external call returns, every run of main reaches a
\* terminal outcome (the process exits, with success or a failure), whatever
\* the statuses and command results; the waited-time counter of the poll
\* loop grows by 2 on every check that is not RUNNING, and the loop does not
\* run past the 15th check.
C19_Terminates ==
    /\ <>Ended
    /\ WaitGrowsByTwo
    /\ []NoSixteenthCheck

\* A run that went through the whole poll budget and ended.
C19_Witness ==
    /\ Ended
    /\ exitStatus = <<1>>
    /\ wait_time = 30
    /\ Len(checkedAt) = 15
    /\ Count("sleep2") = 15
    /\ lastReturned = <<"FAILED">>
    /\ ~Has("savepoint")

====
